---- MODULE Spec2Model ----
(***************************************************************************)
(* A model of leap_net's proxy (ProxyLeapNet) and of the agent that drives *)
(* it (AgentWithProxy).  Methods are operators from a world record         *)
(* [a, p, fs, log, exc, ret, h, l, io, tqdm] (agent, proxy, file system,   *)
(* call log, exception, returned value, history counters, locals of the    *)
(* running loop, exchanges with the environment and the policy, whether    *)
(* the module binds the name tqdm) to a world record; a handler is the     *)
(* composition of the methods it calls, and an action applies one handler. *)
(***************************************************************************)
EXTENDS Integers, Sequences, FiniteSets, TLC

VARIABLES agent, proxy, disk, calls, exc, hist, pc, loop, fresh, held, io, tqdm

vars == <<agent, proxy, disk, calls, exc, hist, pc, loop, fresh, held, io, tqdm>>

\* ------------------------------------------------------------------ bounds
\* rows of the training buffer (max_row_training_set of the model's proxies)
Capacity == 2
\* size of a training batch (train_batch_size)
TrainBatchSize == 2
\* period of the checkpoints, in training iterations (save_freq)
SaveFreq == 2
\* period of the progress metrics, in training iterations (update_tensorboard)
UpdateTensorboard == 2
\* proxy.store_obs calls the model follows on one proxy
MaxStores == 3
\* training updates of the parameters the model follows
MaxTrain == 2
\* the largest step budget given to train()
MaxBudget == 2
\* calls of train(...) a behaviour makes
MaxSessions == 1
\* calls of evaluate(...) a behaviour makes
MaxEvals == 1
\* terminal steps in a row that a reboot of the environment meets
MaxRetries == 1
\* init calls the model follows on one proxy
MaxInits == 2

\* ------------------------------------------------------------ optionals
\* Python's None and a present value: a sequence of length 0 or 1
None == <<>>
Some(v) == <<v>>
IsNone(o) == Len(o) = 0
Get(o) == o[1]

\* --------------------------------------------------------- float arithmetic
\* floats are exact rationals <<n, d>>, d > 0, in lowest terms; a division by
\* zero gives numpy's non-finite result (inf or nan), which every later
\* operation keeps non-finite
NonFinite == <<0, 0>>
Abs(x) == IF x < 0 THEN -x ELSE x
RECURSIVE GCD(_, _)
GCD(a, b) == IF b = 0 THEN a ELSE GCD(b, a % b)
Rat(n, d) ==
    LET s == IF d < 0 THEN -1 ELSE 1
        g == GCD(Abs(n), Abs(d))
    IN  IF d = 0 THEN NonFinite ELSE <<(s * n) \div g, (s * d) \div g>>
R(i) == <<i, 1>>
IsFinite(a) == a[2] # 0
RAdd(a, b) ==
    IF IsFinite(a) /\ IsFinite(b) THEN Rat(a[1] * b[2] + b[1] * a[2], a[2] * b[2]) ELSE NonFinite
RSub(a, b) ==
    IF IsFinite(a) /\ IsFinite(b) THEN Rat(a[1] * b[2] - b[1] * a[2], a[2] * b[2]) ELSE NonFinite
RMul(a, b) ==
    IF IsFinite(a) /\ IsFinite(b) THEN Rat(a[1] * b[1], a[2] * b[2]) ELSE NonFinite
RDiv(a, b) ==
    IF IsFinite(a) /\ IsFinite(b) THEN Rat(a[1] * b[2], a[2] * b[1]) ELSE NonFinite
RAbs(a) == <<Abs(a[1]), a[2]>>
\* elementwise operations on rows (numpy broadcasting of equal widths)
VSub(u, v) == [i \in 1..Len(u) |-> RSub(u[i], v[i])]
VAdd(u, v) == [i \in 1..Len(u) |-> RAdd(u[i], v[i])]
VMul(u, v) == [i \in 1..Len(u) |-> RMul(u[i], v[i])]
VDiv(u, v) == [i \in 1..Len(u) |-> RDiv(u[i], v[i])]
Zeros(n) == [i \in 1..n |-> R(0)]
Ones(n) == [i \in 1..n |-> R(1)]

\* position of an element in a tuple (tuple.index), 0 for ValueError
IndexOf(seq, x) ==
    IF \E i \in 1..Len(seq) : seq[i] = x
    THEN CHOOSE i \in 1..Len(seq) : seq[i] = x /\ \A j \in 1..(i - 1) : seq[j] # x
    ELSE 0
Min(a, b) == IF a < b THEN a ELSE b

\* ------------------------------------------------------------ observations
\* A grid of two power lines.  An observation gives every attribute as a row
\* of floats; line_status is encoded as build_model's comment says: 1 for a
\* disconnected line, 0 for a connected one.
O1 == [line_status |-> <<R(0), R(0)>>, prod_p |-> <<R(1)>>, a_or |-> <<R(2), R(1)>>,
       rho |-> <<R(1), R(1)>>, prod_q |-> <<R(1)>>]
O2 == [line_status |-> <<R(1), R(0)>>, prod_p |-> <<R(2)>>, a_or |-> <<R(0), R(3)>>,
       rho |-> <<R(0), R(2)>>, prod_q |-> <<R(0)>>]
O3 == [line_status |-> <<R(0), R(1)>>, prod_p |-> <<R(3)>>, a_or |-> <<R(1), R(0)>>,
       rho |-> <<R(2), R(0)>>, prod_q |-> <<R(2)>>]
Observations == {O1, O2}
\* the bootstrap batches given to init: one observation, or two
Bootstraps == {<<O2>>, <<O2, O3>>}

\* getattr(obs, attr_nm) as a row of the working dtype
ExtractObs(obs, attr_nm) == obs[attr_nm]

\* per-component mean of the attribute over the bootstrap batch
GetMean(obss, attr_nm) ==
    LET n == Len(obss)
        w == Len(ExtractObs(obss[1], attr_nm))
    IN  [c \in 1..w |->
            IF n = 1 THEN ExtractObs(obss[1], attr_nm)[c]
            ELSE RDiv(RAdd(ExtractObs(obss[1], attr_nm)[c], ExtractObs(obss[2], attr_nm)[c]), R(2))]
\* what a degenerate (zero) standard deviation is replaced by
SdFloor == 1
\* per-component standard deviation of the attribute over the bootstrap batch
\* (of one or two observations, where it is |a - b| / 2), never zero
GetSd(obss, attr_nm) ==
    LET n == Len(obss)
        w == Len(ExtractObs(obss[1], attr_nm))
        raw(c) == IF n = 1 THEN R(0)
                  ELSE RDiv(RAbs(RSub(ExtractObs(obss[1], attr_nm)[c], ExtractObs(obss[2], attr_nm)[c])), R(2))
    IN  [c \in 1..w |-> IF raw(c) = R(0) THEN R(SdFloor) ELSE raw(c)]

\* ------------------------------------------------------------ world records
\* the call log and the exception of the handler being run
Call(W, nm) == [W EXCEPT !.log = Append(@, nm)]
Raise(W, e) == [W EXCEPT !.exc = e]
\* a statement runs only when Ok: unless an exception is propagating
Ok(W) == W.exc = "none"
\* the value the handler returns
Return(W, v) == [W EXCEPT !.ret = v]
\* an exchange with the environment or the policy: env.reset() giving obs,
\* policy.act(obs) giving action act, env.step(act) giving obs and done
Ev(op, obs, done, a) == [op |-> op, obs |-> obs, done |-> done, act |-> a]
Emit(W, e) == [W EXCEPT !.io = Append(@, e)]

\* ---------------------------------------------------------- ProxyLeapNet
line_attr == {"a_or", "a_ex", "p_or", "p_ex", "q_or", "q_ex", "v_or", "v_ex"}

\* constructor arguments of the proxies of the model
DefaultCfg ==
    [name |-> "leap_net", attr_x |-> <<"prod_p">>, attr_y |-> <<"a_or", "prod_q">>,
     attr_tau |-> <<"line_status">>, sizes_enc |-> <<2>>, sizes_main |-> <<3>>,
     sizes_out |-> <<2>>, scale_main_layer |-> Some(3), scale_input_dec_layer |-> None,
     scale_input_enc_layer |-> None, layer_act |-> None]
\* an earlier run's proxy: it predicts rho (per line, but not one of the
\* attributes stored as lines) where the default predicts a_or
ForeignCfg ==
    [DefaultCfg EXCEPT !.attr_y = <<"rho", "prod_q">>]
\* a proxy constructed without the scaling layer of the trunk and with one
\* before the decoders
PlainCfg ==
    [DefaultCfg EXCEPT !.scale_main_layer = None, !.scale_input_dec_layer = Some(2)]

ProxyLeapNetNew(cfg) ==
    LET it == IndexOf(cfg.attr_tau, "line_status")
        ix == IndexOf(cfg.attr_x, "line_status")
    IN  [name |-> cfg.name,
         max_row_training_set |-> Capacity,
         train_batch_size |-> TrainBatchSize,
         attr_x |-> cfg.attr_x, attr_y |-> cfg.attr_y, attr_tau |-> cfg.attr_tau,
         sz_x |-> None, sz_y |-> None, sz_tau |-> None,
         my_x |-> None, my_y |-> None, my_tau |-> None,
         m_x |-> None, m_y |-> None, m_tau |-> None,
         sd_x |-> None, sd_y |-> None, sd_tau |-> None,
         sizes_enc |-> cfg.sizes_enc, sizes_main |-> cfg.sizes_main, sizes_out |-> cfg.sizes_out,
         scale_main_layer |-> cfg.scale_main_layer,
         scale_input_dec_layer |-> cfg.scale_input_dec_layer,
         scale_input_enc_layer |-> cfg.scale_input_enc_layer,
         layer_act |-> cfg.layer_act,
         idx |-> IF it # 0 THEN Some(it) ELSE IF ix # 0 THEN Some(ix) ELSE None,
         where_id |-> IF it # 0 THEN Some("tau") ELSE IF ix # 0 THEN Some("x") ELSE None,
         warned |-> it = 0 /\ ix = 0,
         tensor_line_status |-> None,
         model |-> None, weights |-> None, optimizer |-> None,
         last_id |-> 0, is_filled |-> FALSE, metadata_loaded |-> FALSE]

\* the empty keras Sequential() that build_model assigns first
EmptySequential ==
    [kind |-> "Sequential", inputs_x |-> <<>>, inputs_tau |-> <<>>,
     scale_enc |-> None, enc |-> <<>>, scale_main |-> None, main |-> <<>>,
     scale_dec |-> None, out |-> <<>>, layer_act |-> None, outputs |-> <<>>,
     mask |-> None]

\* the network build_model constructs from the proxy's current fields
Architecture(p, tls) ==
    [kind |-> "Model",
     inputs_x |-> [i \in 1..Min(Len(Get(p.sz_x)), Len(p.attr_x)) |-> <<p.attr_x[i], Get(p.sz_x)[i]>>],
     inputs_tau |-> [i \in 1..Min(Len(Get(p.sz_tau)), Len(p.attr_tau)) |-> <<p.attr_tau[i], Get(p.sz_tau)[i]>>],
     scale_enc |-> p.scale_input_enc_layer, enc |-> p.sizes_enc,
     scale_main |-> p.scale_main_layer, main |-> p.sizes_main,
     scale_dec |-> p.scale_input_dec_layer, out |-> p.sizes_out,
     layer_act |-> p.layer_act,
     mask |-> tls,
     outputs |-> [i \in 1..Min(Len(Get(p.sz_y)), Len(p.attr_y)) |->
                    [name |-> p.attr_y[i], sz |-> Get(p.sz_y)[i],
                     force_disco |-> ~IsNone(tls) /\ p.attr_y[i] \in line_attr]]]

\* the optimizer and its learning-rate schedule, as compiled into a new model
MakeOptimiser == [steps |-> 0]

\* how many Input tensors build_model makes for a group: one per pair of the
\* zip of its widths and its attributes
NbInputs(p, group) ==
    IF group = "x" THEN Min(Len(Get(p.sz_x)), Len(p.attr_x))
    ELSE Min(Len(Get(p.sz_tau)), Len(p.attr_tau))

\* build_model past its guard: the empty Sequential first, then the inputs,
\* the mask tensor, the layers, the Model and its compilation
new_model(W) ==
    LET p == W.p
        tls == IF IsNone(p.idx) THEN p.tensor_line_status
               ELSE Some([src |-> Get(p.where_id), idx |-> Get(p.idx)])
    IN  IF IsNone(p.sz_x) \/ IsNone(p.sz_tau)
        THEN Raise([W EXCEPT !.p.model = Some(EmptySequential)], "TypeError")
        ELSE IF ~IsNone(p.idx) /\ IsNone(p.where_id)
        THEN Raise([W EXCEPT !.p.model = Some(EmptySequential)], "RuntimeError")
        ELSE IF ~IsNone(p.idx) /\ Get(p.idx) > NbInputs(p, Get(p.where_id))
        THEN Raise([W EXCEPT !.p.model = Some(EmptySequential)], "IndexError")
        ELSE IF IsNone(p.sz_y)
        THEN Raise([W EXCEPT !.p.model = Some(EmptySequential),
                             !.p.tensor_line_status = tls], "TypeError")
        ELSE [W EXCEPT !.p.tensor_line_status = tls,
                       !.p.model = Some(Architecture(p, tls)),
                       !.p.weights = Some([shape |-> Architecture(p, tls), ver |-> 0]),
                       !.p.optimizer = Some(MakeOptimiser)]

\* a build_model without the guard of lines 118-120: it builds again whatever is held
build_model_rebuild(W) ==
    IF ~Ok(W) THEN W ELSE new_model(Call(W, "proxy.build_model"))

build_model(W) ==
    IF ~Ok(W) THEN W
    ELSE IF ~IsNone(W.p.model) THEN Call(W, "proxy.build_model")
    ELSE new_model(Call(W, "proxy.build_model"))

\* zeroed arrays of max_row_training_set rows, one per attribute width
ZeroArrays(p, szs) == [i \in 1..Len(szs) |-> [r \in 1..p.max_row_training_set |-> Zeros(szs[i])]]
\* BaseNNProxy._init_database_shapes: the arrays of X and Y
BaseInitDatabaseShapes(p) ==
    [p EXCEPT !.my_x = Some(ZeroArrays(p, Get(p.sz_x))), !.my_y = Some(ZeroArrays(p, Get(p.sz_y)))]
init_database_shapes(p) ==
    [BaseInitDatabaseShapes(p) EXCEPT !.my_tau = Some(ZeroArrays(p, Get(p.sz_tau)))]

\* the widths of the attributes, read from the first observation of the batch
Widths(attrs, obs) == [i \in 1..Len(attrs) |-> Len(ExtractObs(obs, attrs[i]))]
\* BaseNNProxy.init: the widths of X and Y (unless metadata was loaded), then
\* the arrays of the training buffer
BaseInit(p, obss) ==
    init_database_shapes(
        IF ~p.metadata_loaded
        THEN [p EXCEPT !.sz_x = Some(Widths(p.attr_x, obss[1])),
                       !.sz_y = Some(Widths(p.attr_y, obss[1]))]
        ELSE p)

Means(attrs, obss) == [i \in 1..Len(attrs) |-> GetMean(obss, attrs[i])]
Sds(attrs, obss) == [i \in 1..Len(attrs) |-> GetSd(obss, attrs[i])]

\* history: init ran once more, and the buffer it allocated holds no store yet
NoteInit(W) == [W EXCEPT !.h.inits = @ + 1, !.h.nstores = 0, !.h.recent = <<>>]

\* the widths of tau, unless metadata was loaded
InitTau(p, obss) ==
    IF ~p.metadata_loaded THEN [p EXCEPT !.sz_tau = Some(Widths(p.attr_tau, obss[1]))] ELSE p

ComputedStats(p, obss) ==
    [p EXCEPT !.m_x = Some(Means(p.attr_x, obss)), !.sd_x = Some(Sds(p.attr_x, obss)),
              !.m_y = Some(Means(p.attr_y, obss)), !.sd_y = Some(Sds(p.attr_y, obss)),
              !.m_tau = Some(Means(p.attr_tau, obss)), !.sd_tau = Some(Sds(p.attr_tau, obss))]
\* the means and standard deviations, unless metadata was loaded
InitStats(p, obss) ==
    IF ~p.metadata_loaded THEN ComputedStats(p, obss) ELSE p

\* an init that recomputes the statistics even when metadata were loaded
init_recompute(W, obss) ==
    IF ~Ok(W) THEN W
    ELSE NoteInit([Call(W, "proxy.init") EXCEPT
            !.p = [ComputedStats(BaseInit(InitTau(W.p, obss), obss), obss)
                      EXCEPT !.metadata_loaded = TRUE]])

init(W, obss) ==
    IF ~Ok(W) THEN W
    ELSE NoteInit([Call(W, "proxy.init") EXCEPT
            !.p = [InitStats(BaseInit(InitTau(W.p, obss), obss), obss)
                      EXCEPT !.metadata_loaded = TRUE]])

\* arr[row, :] = value, for each (attribute, array) pair of zip(attrs, arrays)
WriteRows(attrs, arrays, row, obs) ==
    [i \in 1..Len(arrays) |->
        IF i <= Len(attrs) THEN [arrays[i] EXCEPT ![row + 1] = ExtractObs(obs, attrs[i])]
        ELSE arrays[i]]

\* BaseNNProxy.store_obs: the rows of X and Y at the cursor, then the cursor
\* advances modulo the capacity; the buffer is filled once the cursor wraps
BaseStoreObs(W, obs) ==
    LET p == W.p
        nxt == (p.last_id + 1) % p.max_row_training_set
    IN  IF IsNone(p.my_x) \/ IsNone(p.my_y) THEN Raise(W, "TypeError")
        ELSE [W EXCEPT !.p.my_x = Some(WriteRows(p.attr_x, Get(p.my_x), p.last_id, obs)),
                       !.p.my_y = Some(WriteRows(p.attr_y, Get(p.my_y), p.last_id, obs)),
                       !.p.last_id = nxt,
                       !.p.is_filled = p.is_filled \/ nxt = 0,
                       !.h.nstores = @ + 1,
                       !.h.recent = IF Len(@) < Capacity THEN Append(@, obs)
                                    ELSE Append(Tail(@), obs)]

\* a store_obs that writes the tau row after the base class advanced the cursor
store_obs_tau_next_row(W, obs) ==
    IF ~Ok(W) THEN W
    ELSE IF IsNone(W.p.my_tau) THEN Raise(Call(W, "proxy.store_obs"), "TypeError")
    ELSE BaseStoreObs(
            [Call(W, "proxy.store_obs") EXCEPT
                !.p.my_tau = Some(WriteRows(W.p.attr_tau, Get(W.p.my_tau),
                                            (W.p.last_id + 1) % W.p.max_row_training_set, obs))],
            obs)

\* a store_obs that skips the tau arrays, and the store, when there are none
store_obs_skip_unallocated(W, obs) ==
    IF ~Ok(W) THEN W
    ELSE IF IsNone(W.p.my_tau) THEN Call(W, "proxy.store_obs")
    ELSE BaseStoreObs(
            [Call(W, "proxy.store_obs") EXCEPT
                !.p.my_tau = Some(WriteRows(W.p.attr_tau, Get(W.p.my_tau), W.p.last_id, obs))],
            obs)

store_obs(W, obs) ==
    IF ~Ok(W) THEN W
    ELSE IF IsNone(W.p.my_tau) THEN Raise(Call(W, "proxy.store_obs"), "TypeError")
    ELSE BaseStoreObs(
            [Call(W, "proxy.store_obs") EXCEPT
                !.p.my_tau = Some(WriteRows(W.p.attr_tau, Get(W.p.my_tau), W.p.last_id, obs))],
            obs)

\* rows the sampler may draw from
FilledCount(p) == IF p.is_filled THEN p.max_row_training_set ELSE p.last_id

\* ----------------------------------------------------------------- JSON
\* JSON values: numbers, strings and lists are tagged, so that a Python value
\* and its JSON form differ and each conversion is a step of its own
JNum(x) == [num |-> x]
JStr(x) == [str |-> x]
JList(l) == [list |-> l]
\* int(el) and str(el) on the way out, int(...) / str(...) / float on the way in
IntsToJson(l) == JList([i \in 1..Len(l) |-> JNum(R(l[i]))])
StrsToJson(l) == JList([i \in 1..Len(l) |-> JStr(l[i])])
PyInt(j) == IF j.num[1] >= 0 THEN j.num[1] \div j.num[2] ELSE -((-j.num[1]) \div j.num[2])
IntsFromJson(j) == [i \in 1..Len(j.list) |-> PyInt(j.list[i])]
StrsFromJson(j) == [i \in 1..Len(j.list) |-> j.list[i].str]
\* _save_dict: one statistic (an array) appended as a list of floats
SaveDict(el) == JList([c \in 1..Len(el) |-> JNum(el[c])])
StatsToJson(l) == JList([i \in 1..Len(l) |-> SaveDict(l[i])])
\* _add_attr: one statistic read back as an array of the working dtype
AddAttr(j) == [c \in 1..Len(j.list) |-> j.list[c].num]
StatsFromJson(j) == [i \in 1..Len(j.list) |-> AddAttr(j.list[i])]

\* BaseNNProxy.get_metadata: the attribute lists and widths of X and Y and the
\* cursor of the training buffer
BaseGetMetadata(p) ==
    [attr_x |-> StrsToJson(p.attr_x), attr_y |-> StrsToJson(p.attr_y),
     sz_x |-> IntsToJson(Get(p.sz_x)), sz_y |-> IntsToJson(Get(p.sz_y)),
     last_id |-> JNum(R(p.last_id))]

\* whether get_metadata can run: it iterates the widths and the statistics
CanGetMetadata(p) ==
    ~IsNone(p.sz_x) /\ ~IsNone(p.sz_y) /\ ~IsNone(p.sz_tau) /\ ~IsNone(p.m_x)

OptKey(key, o) == IF IsNone(o) THEN <<>> ELSE (key :> JNum(R(Get(o))))

get_metadata(p) ==
    BaseGetMetadata(p)
    @@ [attr_tau |-> StrsToJson(p.attr_tau), sz_tau |-> IntsToJson(Get(p.sz_tau)),
        m_x |-> StatsToJson(Get(p.m_x)), m_y |-> StatsToJson(Get(p.m_y)),
        m_tau |-> StatsToJson(Get(p.m_tau)),
        sd_x |-> StatsToJson(Get(p.sd_x)), sd_y |-> StatsToJson(Get(p.sd_y)),
        sd_tau |-> StatsToJson(Get(p.sd_tau)),
        sizes_enc |-> IntsToJson(p.sizes_enc), sizes_main |-> IntsToJson(p.sizes_main),
        sizes_out |-> IntsToJson(p.sizes_out)]
    @@ OptKey("scale_main_layer", p.scale_main_layer)
    @@ OptKey("scale_input_dec_layer", p.scale_input_dec_layer)
    @@ OptKey("scale_input_enc_layer", p.scale_input_enc_layer)

\* BaseNNProxy.load_metadata: the attribute lists and widths of X and Y and the
\* cursor; the metadata counts as loaded from here on
BaseLoadMetadata(p, d) ==
    [p EXCEPT !.attr_x = StrsFromJson(d.attr_x), !.attr_y = StrsFromJson(d.attr_y),
              !.sz_x = Some(IntsFromJson(d.sz_x)), !.sz_y = Some(IntsFromJson(d.sz_y)),
              !.last_id = PyInt(d.last_id),
              !.metadata_loaded = TRUE]

OptInt(d, key) == IF key \in DOMAIN d THEN Some(PyInt(d[key])) ELSE None

\* the statistics and the sizes of the layers, read from the dictionary
LoadedSizes(p, d) ==
    [p EXCEPT !.m_x = Some(StatsFromJson(d.m_x)), !.m_y = Some(StatsFromJson(d.m_y)),
              !.m_tau = Some(StatsFromJson(d.m_tau)),
              !.sd_x = Some(StatsFromJson(d.sd_x)), !.sd_y = Some(StatsFromJson(d.sd_y)),
              !.sd_tau = Some(StatsFromJson(d.sd_tau)),
              !.sizes_enc = IntsFromJson(d.sizes_enc),
              !.sizes_main = IntsFromJson(d.sizes_main),
              !.sizes_out = IntsFromJson(d.sizes_out)]
\* the optional fields: None when the dictionary has no such key
LoadedOptions(p, d) ==
    [p EXCEPT !.scale_main_layer = OptInt(d, "scale_main_layer"),
              !.scale_input_dec_layer = OptInt(d, "scale_input_dec_layer"),
              !.scale_input_enc_layer = OptInt(d, "scale_input_enc_layer"),
              !.layer_act = IF "layer_act" \in DOMAIN d THEN Some(d.layer_act.str) ELSE None]
LoadedTau(p, d) ==
    [p EXCEPT !.attr_tau = StrsFromJson(d.attr_tau), !.sz_tau = Some(IntsFromJson(d.sz_tau))]

\* a load_metadata that reads the scale of y from the saved means
load_metadata_sd_y_from_m_y(W, d) ==
    IF ~Ok(W) THEN W
    ELSE [Call(W, "proxy.load_metadata") EXCEPT
            !.p = [LoadedOptions(LoadedSizes(BaseLoadMetadata(LoadedTau(W.p, d), d), d), d)
                      EXCEPT !.sd_y = Some(StatsFromJson(d.m_y))],
            !.h.loads = Min(@ + 1, 1)]

load_metadata(W, d) ==
    IF ~Ok(W) THEN W
    ELSE [Call(W, "proxy.load_metadata") EXCEPT
            !.p = LoadedOptions(LoadedSizes(BaseLoadMetadata(LoadedTau(W.p, d), d), d), d),
            !.h.loads = Min(@ + 1, 1)]

\* ------------------------------------------------- extraction, inference
\* (arr[indx, :] - m_) / sd_ for each (array, mean, std) of the zip
Normalize(arrays, ms, sds, indx) ==
    [i \in 1..Min(Len(arrays), Min(Len(ms), Len(sds))) |->
        [k \in 1..Len(indx) |-> VDiv(VSub(arrays[i][indx[k] + 1], ms[i]), sds[i])]]

extract_data(p, indx) ==
    [n |-> Len(indx),
     x |-> Normalize(Get(p.my_x), Get(p.m_x), Get(p.sd_x), indx),
     tau |-> Normalize(Get(p.my_tau), Get(p.m_tau), Get(p.sd_tau), indx),
     y |-> Normalize(Get(p.my_y), Get(p.m_y), Get(p.sd_y), indx)]

\* a post_process that subtracts the mean instead of adding it
post_process_minus(p, predicted_state) ==
    [i \in 1..Min(Len(predicted_state), Min(Len(Get(p.m_y)), Len(Get(p.sd_y)))) |->
        [k \in 1..Len(predicted_state[i]) |->
            VSub(VMul(predicted_state[i][k], Get(p.sd_y)[i]), Get(p.m_y)[i])]]

\* arr * sd_ + m_ for each (output, mean, std) of the zip; an output is a batch
post_process(p, predicted_state) ==
    [i \in 1..Min(Len(predicted_state), Min(Len(Get(p.m_y)), Len(Get(p.sd_y)))) |->
        [k \in 1..Len(predicted_state[i]) |->
            VAdd(VMul(predicted_state[i][k], Get(p.sd_y)[i]), Get(p.m_y)[i])]]

\* the mask tensor of build_model: 1.0 - (the line_status input of the batch)
tensor_line_status(arch, data) ==
    LET src == Get(arch.mask)
        inp == IF src.src = "x" THEN data.x[src.idx] ELSE data.tau[src.idx]
    IN  [k \in 1..Len(inp) |-> VSub(Ones(Len(inp[k])), inp[k])]


\* the outputs of the network on a batch, dec[i] being what the last Dense
\* layer of output i gives (the same for every row of the batch): a
\* force_disco output is multiplied by the mask tensor
forward(arch, data, dec) ==
    [i \in 1..Len(arch.outputs) |->
        IF arch.outputs[i].force_disco
        THEN [k \in 1..data.n |-> VMul(dec[i], tensor_line_status(arch, data)[k])]
        ELSE [k \in 1..data.n |-> dec[i]]]

\* the permutations of the rows: the draws of the sampler's random generator
Seeds == {s \in [1..Capacity -> 0..(Capacity - 1)] : \A i, j \in 1..Capacity : s[i] = s[j] => i = j}
\* a sampler that draws the same row every time
SampleRepeated(seed, filled, b) == [i \in 1..b |-> seed[1] % filled]
\* sample(batch_size): batch_size distinct rows of [0, filled_count)
Sample(seed, filled, b) ==
    LET Keep[i \in 0..Len(seed)] ==
            IF i = 0 THEN <<>>
            ELSE IF seed[i] < filled THEN Append(Keep[i - 1], seed[i]) ELSE Keep[i - 1]
    IN  SubSeq(Keep[Len(seed)], 1, b)

\* BaseNNProxy.sample: batch_size rows of the filled part of the buffer, an
\* error when nothing is filled
sample(W, seed, batch_size) ==
    IF ~Ok(W) THEN W
    ELSE IF FilledCount(W.p) = 0 THEN Raise(Call(W, "proxy.sample"), "InsufficientDataError")
    ELSE Return(Call(W, "proxy.sample"), Some(Sample(seed, FilledCount(W.p), batch_size)))

\* what the last Dense layer of each output can give: one row per output
DecoderOutputs(arch) ==
    {[i \in 1..Len(arch.outputs) |-> [c \in 1..arch.outputs[i].sz |-> R(v)]] : v \in {1, -2}}

\* BaseNNProxy.train: one training step on a sampled batch; no losses (None)
\* when the buffer cannot give a batch
train(W, seed) ==
    IF ~Ok(W) THEN W
    ELSE IF FilledCount(W.p) < W.p.train_batch_size THEN Return(Call(W, "proxy.train"), None)
    ELSE IF IsNone(W.p.model) \/ IsNone(W.p.weights)
    THEN Raise(Call(W, "proxy.train"), "AttributeError")
    ELSE Return([Call(W, "proxy.train") EXCEPT
                    !.p.weights = Some([Get(W.p.weights) EXCEPT !.ver = @ + 1]),
                    !.p.optimizer = Some([steps |-> Get(W.p.optimizer).steps + 1])],
                Some([i \in 1..Len(extract_data(W.p, Sample(seed, FilledCount(W.p),
                                                            W.p.train_batch_size)).y) |-> "mse"]))

\* BaseNNProxy.predict: a forward pass on the most recently stored row, then
\* _post_process; the history keeps what reached the network and what came out
\* the row most recently stored
LastRow(p) == (p.last_id + p.max_row_training_set - 1) % p.max_row_training_set
\* the raw line_status of that row, where the mask of the network reads it
LineStatusRow(p, arch) ==
    IF IsNone(arch.mask) THEN <<>>
    ELSE IF Get(arch.mask).src = "x" THEN Get(p.my_x)[Get(arch.mask).idx][LastRow(p) + 1]
    ELSE Get(p.my_tau)[Get(arch.mask).idx][LastRow(p) + 1]
Predicted(W, dec, out) ==
    Return([W EXCEPT !.h.fwd = Some([ls |-> LineStatusRow(W.p, Get(W.p.model)),
                                     dec |-> dec, out |-> out])],
           post_process(W.p, out))
predict(W, dec) ==
    IF ~Ok(W) THEN W
    ELSE IF IsNone(W.p.model) \/ IsNone(W.p.my_x) \/ IsNone(W.p.m_x)
    THEN Raise(Call(W, "proxy.predict"), "AttributeError")
    ELSE IF Get(W.p.model).kind # "Model" THEN Raise(Call(W, "proxy.predict"), "ValueError")
    ELSE Predicted(Call(W, "proxy.predict"), dec,
                   forward(Get(W.p.model), extract_data(W.p, <<LastRow(W.p)>>), dec))

\* ---------------------------------------------------------- file system
\* a path is the sequence of its components
Join(path, name) == Append(path, name)
Dirs == {<<"ckpt">>, <<"ckpt", "leap_net">>, <<"old">>, <<"old", "leap_net">>, <<"gone">>, <<"gone", "leap_net">>}
Absent == [exists |-> FALSE, meta |-> None, weights |-> None, src |-> None, results |-> None]
EmptyDir == [Absent EXCEPT !.exists = TRUE]
Exists(fs, d) == d \in DOMAIN fs /\ fs[d].exists
Parent(d) == SubSeq(d, 1, Len(d) - 1)

\* BaseNNProxy.save_weights: the parameters as a blob in directory `path`
save_weights(W, path) ==
    IF ~Ok(W) THEN W
    ELSE IF IsNone(W.p.model) \/ IsNone(W.p.weights)
    THEN Raise(Call(W, "proxy.save_weights"), "AttributeError")
    ELSE [Call(W, "proxy.save_weights") EXCEPT !.fs[path].weights = W.p.weights]

\* where load_weights finds the blob of the proxy's name under `path`
WeightsDir(fs, path, name) ==
    IF Exists(fs, path) /\ ~IsNone(fs[path].weights) THEN Some(path)
    ELSE IF Exists(fs, Join(path, name)) /\ ~IsNone(fs[Join(path, name)].weights)
    THEN Some(Join(path, name))
    ELSE None

\* the shapes of the parameters of a network: the widths of its layers, not
\* their names, activations or the mask multiplication
WeightShapes(arch) ==
    [x |-> [i \in 1..Len(arch.inputs_x) |-> arch.inputs_x[i][2]],
     tau |-> [i \in 1..Len(arch.inputs_tau) |-> arch.inputs_tau[i][2]],
     scale_enc |-> arch.scale_enc, enc |-> arch.enc, scale_main |-> arch.scale_main,
     main |-> arch.main, scale_dec |-> arch.scale_dec, out |-> arch.out,
     y |-> [i \in 1..Len(arch.outputs) |-> arch.outputs[i].sz]]

\* BaseNNProxy.load_weights: the blob assigned to the parameters of the model,
\* layer by layer; a blob of other shapes is refused
load_weights(W, path) ==
    IF ~Ok(W) THEN W
    ELSE IF IsNone(W.p.model) THEN Raise(Call(W, "proxy.load_weights"), "AttributeError")
    ELSE IF IsNone(WeightsDir(W.fs, path, W.p.name))
    THEN Raise(Call(W, "proxy.load_weights"), "OSError")
    ELSE IF WeightShapes(Get(W.fs[Get(WeightsDir(W.fs, path, W.p.name))].weights).shape)
            # WeightShapes(Get(W.p.model))
    THEN Raise(Call(W, "proxy.load_weights"), "ValueError")
    ELSE [Call(W, "proxy.load_weights") EXCEPT
            !.p.weights = W.fs[Get(WeightsDir(W.fs, path, W.p.name))].weights]

\* -------------------------------------------------------- AgentWithProxy
\* the directories a tensorboard writer may be asked for: none, or the default
Logdirs == {None, Some("tf_logs")}
\* tf_writer: whether the constructor made a writer (it does unless logdir is None)
AgentNew(logdir) ==
    [global_iter |-> 0, train_iter |-> 0, is_init |-> FALSE, is_training |-> TRUE,
     tf_writer |-> ~IsNone(logdir), update_tensorboard |-> UpdateTensorboard, save_freq |-> SaveFreq,
     save_path |-> None]

get_name(W) == W.p.name

A_init(W, obs) ==
    IF ~Ok(W) THEN W
    ELSE build_model(init([Call(W, "agent.init") EXCEPT !.a.is_init = TRUE], <<obs>>))

\* a store_obs that initialises on every observation
A_store_obs_reinit(W, obs) ==
    IF ~Ok(W) THEN W ELSE store_obs(A_init(W, obs), obs)

A_store_obs(W, obs) ==
    IF ~Ok(W) THEN W
    ELSE store_obs(IF ~W.a.is_init THEN A_init(W, obs) ELSE W, obs)

\* what the saved instance holds of the fields a metadata round trip covers
Snapshot(a, p) ==
    [attr_tau |-> p.attr_tau, sz_tau |-> p.sz_tau,
     m_x |-> p.m_x, m_y |-> p.m_y, m_tau |-> p.m_tau,
     sd_x |-> p.sd_x, sd_y |-> p.sd_y, sd_tau |-> p.sd_tau,
     sizes_enc |-> p.sizes_enc, sizes_main |-> p.sizes_main, sizes_out |-> p.sizes_out,
     scale_main_layer |-> p.scale_main_layer,
     scale_input_dec_layer |-> p.scale_input_dec_layer,
     scale_input_enc_layer |-> p.scale_input_enc_layer,
     last_id |-> p.last_id, train_iter |-> a.train_iter, global_iter |-> a.global_iter]

to_dict(W) ==
    [proxy |-> get_metadata(W.p),
     train_iter |-> JNum(R(W.a.train_iter)),
     global_iter |-> JNum(R(W.a.global_iter))]

\* json.dump into metadata.json of the directory
save_metadata(W, path_model) ==
    IF ~Ok(W) THEN W
    ELSE IF ~CanGetMetadata(W.p) THEN Raise(Call(W, "agent.save_metadata"), "TypeError")
    ELSE [Call(W, "agent.save_metadata") EXCEPT
            !.fs[path_model].meta = Some(to_dict(W)),
            !.fs[path_model].src = Some(Snapshot(W.a, W.p))]

\* os.mkdir(d) unless d exists; the working directory always exists
mkdir(W, d) ==
    IF ~Ok(W) THEN W
    ELSE IF Exists(W.fs, d) THEN W
    ELSE IF Len(d) > 1 /\ ~Exists(W.fs, Parent(d)) THEN Raise(W, "FileNotFoundError")
    ELSE [W EXCEPT !.fs[d] = EmptyDir]

A_save(W, path) ==
    IF ~Ok(W) THEN W
    ELSE IF IsNone(path) THEN Call(W, "agent.save")
    ELSE save_weights(
            save_metadata(mkdir(Call(W, "agent.save"), Join(Get(path), get_name(W))),
                          Join(Get(path), get_name(W))),
            Join(Get(path), get_name(W)))


from_dict(W, d) ==
    IF ~Ok(W) THEN W
    ELSE load_metadata([W EXCEPT !.a.train_iter = PyInt(d.train_iter),
                                 !.a.global_iter = PyInt(d.global_iter)], d.proxy)

\* json.load of metadata.json of the directory, then _from_dict
A_load_metadata(W, path_model) ==
    IF ~Ok(W) THEN W
    ELSE IF IsNone(W.fs[path_model].meta)
    THEN Raise(Call(W, "agent.load_metadata"), "FileNotFoundError")
    ELSE from_dict(Call(W, "agent.load_metadata"), Get(W.fs[path_model].meta))

get_path_nn(path, name) == Join(path, name)

\* the directory load reads the metadata from
PathModel(W, path) == IF W.a.is_training THEN get_path_nn(path, get_name(W)) ELSE path
\* the check that something is there
CheckThere(W, path_model) ==
    IF ~Ok(W) THEN W
    ELSE IF ~Exists(W.fs, path_model) THEN Raise(W, "RuntimeError")
    ELSE W

\* a load that builds the model before it looks for the directory
A_load_build_first(W, path) ==
    IF ~Ok(W) THEN W
    ELSE IF IsNone(path) THEN Call(W, "agent.load")
    ELSE load_weights(
            A_load_metadata(
                CheckThere(build_model(Call(W, "agent.load")), PathModel(W, Get(path))),
                PathModel(W, Get(path))),
            Get(path))

A_load(W, path) ==
    IF ~Ok(W) THEN W
    ELSE IF IsNone(path) THEN Call(W, "agent.load")
    ELSE load_weights(
            build_model(
                A_load_metadata(CheckThere(Call(W, "agent.load"), PathModel(W, Get(path))),
                                PathModel(W, Get(path)))),
            Get(path))

save_tensorboard(W, batch_losses) ==
    IF ~Ok(W) THEN W
    ELSE IF ~W.a.tf_writer THEN Call(W, "agent.save_tensorboard")
    ELSE IF W.a.train_iter % W.a.update_tensorboard = 0
    THEN Call(Call(Call(W, "agent.save_tensorboard"), "tf.summary"), "proxy.save_tensorboard")
    ELSE Call(W, "agent.save_tensorboard")

\* a _save_model that saves on every iteration
save_model_always(W) ==
    IF ~Ok(W) THEN W ELSE A_save(Call(W, "agent.save_model"), W.a.save_path)

save_model(W) ==
    IF ~Ok(W) THEN W
    ELSE IF W.a.train_iter % W.a.save_freq = 0
    THEN A_save(Call(W, "agent.save_model"), W.a.save_path)
    ELSE Call(W, "agent.save_model")

\* the external policy: agent_action.act(obs, reward, done)
\* the action returned is named by the position of the request among the
\* exchanges of the handler
policy_act(W, obs) ==
    IF ~Ok(W) THEN W
    ELSE Return(Emit(Call(W, "policy.act"), Ev("policy", Some(obs), FALSE, Some(Len(W.io) + 1))),
                Some(Len(W.io) + 1))

\* what act does with the losses of the training step, when there are any
AfterTrain(W) ==
    IF ~Ok(W) THEN W
    ELSE IF IsNone(W.ret) THEN W
    ELSE save_model(save_tensorboard([W EXCEPT !.a.train_iter = @ + 1], Get(W.ret)))
\* an act that trains whether the agent is training or evaluating
TrainAlways(W, seed) ==
    IF ~Ok(W) THEN W ELSE AfterTrain(train(W, seed))
TrainIfTraining(W, seed) ==
    IF ~Ok(W) THEN W
    ELSE IF ~W.a.is_training THEN W
    ELSE AfterTrain(train(W, seed))

act(W, obs, seed) ==
    policy_act(TrainIfTraining(A_store_obs(Call(W, "agent.act"), obs), seed), obs)

\* what the environment gives back to one env.step call, with the observation
\* of the env.reset that came before the step when one did
StepOut(obs, done) == [reset |-> None, obs |-> obs, done |-> done]
ResetOut(first, obs, done) == [reset |-> Some(first), obs |-> obs, done |-> done]
\* the locals obs and done of the loop and of _reboot
SetLocals(W, obs, done) == [W EXCEPT !.l.obs = Some(obs), !.l.done = done]
\* done = False
NotDone(W) == IF ~Ok(W) THEN W ELSE [W EXCEPT !.l.done = FALSE]
\* obs = env.reset()
env_reset(W, out) ==
    IF ~Ok(W) THEN W
    ELSE SetLocals(Emit(Call(W, "env.reset"), Ev("reset", out.reset, FALSE, None)),
                   Get(out.reset), FALSE)
\* obs, reward, done, info = env.step(action), the action being the value
\* the policy returned last
env_step(W, out) ==
    IF ~Ok(W) THEN W
    ELSE SetLocals(Emit(Call(W, "env.step"), Ev("step", Some(out.obs), out.done, W.ret)),
                   out.obs, out.done)
\* self.agent_action.act(obs, reward, done) on the local obs
PolicyOnLocals(W) == IF ~Ok(W) THEN W ELSE policy_act(W, Get(W.l.obs))
\* one reset and one step with the policy's action
Attempt(W, out) == env_step(PolicyOnLocals(env_reset(W, out)), out)

\* _reboot: reset, one step with the policy's action, again while the step is
\* terminal; outs gives the results of the successive attempts
\* a variant that makes one attempt only
AgainNever(W, outs) == W
RECURSIVE reboot(_, _)
Again(W, outs) ==
    IF ~Ok(W) THEN W
    ELSE IF W.l.done THEN reboot(W, Tail(outs))
    ELSE W
reboot(W, outs) ==
    IF ~Ok(W) THEN W ELSE Again(Attempt(W, outs[1]), outs)

\* train(...) up to its loop
\* self.save_path = save_path, and its directory made when it is not there
SetSavePath(W, save_path) ==
    IF ~Ok(W) THEN W
    ELSE IF IsNone(save_path) THEN [W EXCEPT !.a.save_path = save_path, !.h.sessions = @ + 1]
    ELSE mkdir([W EXCEPT !.a.save_path = save_path, !.h.sessions = @ + 1], Get(save_path))
LoadIfAsked(W, load_path) ==
    IF IsNone(load_path) THEN W ELSE A_load(W, load_path)
SetTraining(W, b) ==
    IF ~Ok(W) THEN W ELSE [W EXCEPT !.a.is_training = b]
\* with tqdm(total=...) as pbar: the name tqdm is a global of the module only
\* when the module is run as a script (the import of line 383)
Tqdm(W) ==
    IF ~Ok(W) THEN W
    ELSE IF ~W.tqdm THEN Raise(W, "NameError")
    ELSE W

train_start(W, save_path, load_path, outs) ==
    Tqdm(SetTraining(
            LoadIfAsked(SetSavePath(NotDone(reboot(Call(W, "agent.train"), outs)), save_path),
                        load_path),
            TRUE))

\* one iteration of the loop of train(...), and the final save when it breaks
\* the reboot when the step was terminal
RebootIfDone(W, outs) ==
    IF ~Ok(W) THEN W
    ELSE IF W.l.done THEN NotDone(reboot(W, Tail(outs)))
    ELSE W
\* env.step(act), and the reboot when the episode is over
EnvStep(W, outs) == RebootIfDone(env_step(W, outs[1]), outs)
\* self.global_iter += 1; the locals count the iterations of the loop
CountIter(W) ==
    IF ~Ok(W) THEN W ELSE [W EXCEPT !.a.global_iter = @ + 1, !.l.iters = @ + 1]
\* the break of the loop, and the save that follows it
BreakIfDone(W, total) ==
    IF ~Ok(W) THEN W
    ELSE IF W.a.global_iter >= total THEN A_save(Call(W, "train.break"), W.a.save_path)
    ELSE W

train_iter(W, obs, seed, outs, total) ==
    BreakIfDone(CountIter(EnvStep(act(Call(W, "train.loop"), obs, seed), outs)), total)

\* ------------------------------------------------------------- evaluate
\* if load_path is not None: load it, count the steps from zero again and
\* disable the saving of the model
ResetIter(W) ==
    IF ~Ok(W) THEN W ELSE [W EXCEPT !.a.global_iter = 0, !.a.save_path = None]
EvalLoad(W, load_path) ==
    IF ~Ok(W) THEN W
    ELSE IF IsNone(load_path) THEN W
    ELSE ResetIter(A_load(W, load_path))
\* np.zeros((total_evaluation_step, el)) for each width of sizes
ZeroRows(total, szs) == [i \in 1..Len(szs) |-> [r \in 1..total |-> Zeros(szs[i])]]
\* sizes = self._proxy.get_output_sizes(), then the accumulators of the true
\* values and of the predictions: one array of total_evaluation_step rows per
\* output; the widths are None on a proxy never initialised
Accumulators(W, total, save_path) ==
    IF ~Ok(W) THEN W
    ELSE IF IsNone(W.p.sz_y) THEN Raise(Call(W, "proxy.get_output_sizes"), "TypeError")
    ELSE [Call(W, "proxy.get_output_sizes") EXCEPT
            !.l.total = total, !.l.save_path = save_path,
            !.l.start = W.a.global_iter, !.l.iters = 0, !.l.rows = <<>>,
            !.l.true_val = ZeroRows(total, Get(W.p.sz_y)),
            !.l.pred_val = ZeroRows(total, Get(W.p.sz_y))]
NoteEval(W) == IF ~Ok(W) THEN W ELSE [W EXCEPT !.h.evals = @ + 1]

\* evaluate(...) up to its loop
eval_start(W, total, load_path, save_path, outs) ==
    Tqdm(Accumulators(
            EvalLoad(SetTraining(NotDone(reboot(NoteEval(Call(W, "agent.evaluate")), outs)),
                                 FALSE),
                     load_path),
            total, save_path))

\* act = self.act(obs, reward, done): the local that env.step is given later
KeepAct(W) == IF ~Ok(W) THEN W ELSE [W EXCEPT !.l.act = W.ret]
UseAct(W) == IF ~Ok(W) THEN W ELSE Return(W, W.l.act)
\* arr_[row, :] = value for each (array, value) pair of zip(arrays, values);
\* the row is an index into total rows
WriteRow(arrays, values, row) ==
    [i \in 1..Len(arrays) |->
        IF i <= Len(values) THEN [arrays[i] EXCEPT ![row + 1] = values[i]] ELSE arrays[i]]
\* the predictions, one flat row per output, written at row global_iter
WritePred(W) ==
    IF ~Ok(W) THEN W
    ELSE IF Len(W.l.pred_val) > 0 /\ Len(W.ret) > 0 /\ W.a.global_iter >= W.l.total
    THEN Raise(W, "IndexError")
    ELSE [W EXCEPT !.l.pred_val = WriteRow(@, [i \in 1..Len(W.ret) |-> W.ret[i][1]],
                                           W.a.global_iter),
                   !.l.rows = Append(@, W.a.global_iter)]
\* BaseNNProxy.get_true_output: the Y attributes of the observation
get_true_output(p, obs) == [i \in 1..Len(p.attr_y) |-> ExtractObs(obs, p.attr_y[i])]
\* the reference, written at row global_iter
WriteTrue(W) ==
    IF ~Ok(W) THEN W
    ELSE IF Len(W.l.true_val) > 0 /\ Len(W.p.attr_y) > 0 /\ W.a.global_iter >= W.l.total
    THEN Raise(Call(W, "proxy.get_true_output"), "IndexError")
    ELSE [Call(W, "proxy.get_true_output") EXCEPT
            !.l.true_val = WriteRow(@, get_true_output(W.p, Get(W.l.obs)), W.a.global_iter)]

\* np.save of the accumulators and json.dump of the metrics in the directory
SaveArrays(W, d) ==
    IF ~Ok(W) THEN W
    ELSE [Call(W, "np.save") EXCEPT
            !.fs[d].results = Some([pred |-> W.l.pred_val, real |-> W.l.true_val,
                                    predict_step |-> W.a.global_iter])]
\* the average prediction time divides by global_iter
AvgPredTime(W) ==
    IF ~Ok(W) THEN W
    ELSE IF W.a.global_iter = 0 THEN Raise(W, "ZeroDivisionError")
    ELSE W
save_results(W, save_path) ==
    IF ~Ok(W) THEN W
    ELSE IF IsNone(save_path) THEN AvgPredTime(Call(W, "agent.save_results"))
    ELSE SaveArrays(
            mkdir(A_save(AvgPredTime(Call(W, "agent.save_results")), save_path),
                  Join(Get(save_path), get_name(W))),
            Join(Get(save_path), get_name(W)))

\* the break of the loop, and the results saved after it
BreakEval(W) ==
    IF ~Ok(W) THEN W
    ELSE IF W.a.global_iter >= W.l.total
    THEN save_results(Call(W, "evaluate.break"), W.l.save_path)
    ELSE W

\* one iteration of the loop of evaluate(...)
eval_iter(W, seed, dec, outs) ==
    BreakEval(CountIter(EnvStep(
        UseAct(WriteTrue(WritePred(predict(
            KeepAct(act(Call(W, "evaluate.loop"), Get(W.l.obs), seed)), dec)))),
        outs)))

\* ----------------------------------------------------------------- state
\* the world a handler starts from: an empty call log, no exception, and no
\* forward pass recorded yet
Cur == [a |-> agent, p |-> proxy, fs |-> disk, log |-> <<>>, exc |-> "none", ret |-> None,
        h |-> [hist EXCEPT !.fwd = None], l |-> loop, io |-> <<>>, tqdm |-> tqdm]

Apply(W) ==
    /\ agent' = W.a
    /\ proxy' = W.p
    /\ disk' = W.fs
    /\ calls' = W.log
    /\ exc' = W.exc
    /\ hist' = W.h
    /\ UNCHANGED <<io, tqdm>>

\* the counters the model follows stay within its bounds
Bounded(W) ==
    /\ W.a.global_iter <= MaxBudget + 1
    /\ W.a.train_iter <= MaxTrain
    /\ IF IsNone(W.p.weights) THEN TRUE ELSE Get(W.p.weights).ver <= MaxTrain
    /\ IF IsNone(W.p.optimizer) THEN TRUE ELSE Get(W.p.optimizer).steps <= MaxTrain
    /\ W.h.nstores <= MaxStores
    /\ W.h.inits <= MaxInits
    /\ W.h.sessions <= MaxSessions
    /\ W.h.evals <= MaxEvals

\* the state after a handler
Step(W) == Bounded(W) /\ Apply(W)

Hist0 ==
    [inits |-> 0, loads |-> 0, nstores |-> 0, recent |-> <<>>, fwd |-> None, sessions |-> 0,
     evals |-> 0]

\* no loop is running: the locals of train(...) and evaluate(...)
NoLoop ==
    [total |-> 0, obs |-> None, done |-> FALSE, act |-> None, start |-> 0, iters |-> 0,
     pred_val |-> <<>>, true_val |-> <<>>, rows |-> <<>>, save_path |-> None]

NewWorld(cfg, fs) ==
    [a |-> AgentNew(Some("tf_logs")), p |-> ProxyLeapNetNew(cfg), fs |-> fs, log |-> <<>>, exc |-> "none",
     ret |-> None, h |-> Hist0, l |-> NoLoop, io |-> <<>>, tqdm |-> FALSE]

\* the file system before the run: the working directories "ckpt" and "old"
Disk0 == [d \in Dirs |-> IF d \in {<<"ckpt">>, <<"old">>} THEN EmptyDir ELSE Absent]
\* an earlier run left a checkpoint under "old": its agent, configured with
\* ForeignCfg, took one step on O2 and saved
ForeignWorld ==
    LET W1 == act(NewWorld(ForeignCfg, Disk0), O2, [i \in 1..Capacity |-> i - 1])
    IN  A_save(W1, Some(<<"old">>))
InitDisk == ForeignWorld.fs

NotLoaded == [loaded |-> FALSE, got |-> None, src |-> None]

\* the state after construction, the agent being a and the name tqdm being
\* bound or not
InitWith(a, t) ==
    /\ agent = a
    /\ tqdm = t
    /\ io = <<>>
    /\ proxy = ProxyLeapNetNew(DefaultCfg)
    /\ disk = InitDisk
    /\ calls = <<>>
    /\ exc = "none"
    /\ hist = Hist0
    /\ pc = "idle"
    /\ loop = NoLoop
    /\ fresh = NotLoaded
    /\ held = None

\* the module is run as a script, as its __main__ block is
Init == \E logdir \in Logdirs : InitWith(AgentNew(logdir), TRUE)

SavePaths == {<<"ckpt">>}
LoadPaths == {<<"ckpt">>, <<"ckpt", "leap_net">>, <<"old">>, <<"old", "leap_net">>, <<"gone">>}

\* --------------------------------------------------- the agent's handlers
Act(obs, seed) ==
    /\ pc = "idle"
    /\ Step(act(Cur, obs, seed))
    /\ UNCHANGED <<pc, loop, fresh, held>>

Save(path) ==
    /\ pc = "idle"
    /\ Step(A_save(Cur, Some(path)))
    /\ UNCHANGED <<pc, loop, fresh, held>>

Load(path) ==
    /\ pc = "idle"
    /\ Step(A_load(Cur, Some(path)))
    /\ UNCHANGED <<pc, loop, fresh, held>>

\* the loop is entered when train(...) got to it
Entered(W, total) ==
    /\ Step(W)
    /\ pc' = IF Ok(W) THEN "train" ELSE "idle"
    /\ loop' = IF Ok(W) THEN [NoLoop EXCEPT !.total = total] ELSE NoLoop

\* a run of the environment through _reboot: `retries` terminal attempts,
\* then one that is not
Reboots(retries) == [i \in 1..(retries + 1) |-> ResetOut(O1, O1, i <= retries)]

TrainStart(total, save_path, load_path, retries) ==
    /\ pc = "idle"
    /\ Entered(train_start(Cur, save_path, load_path, Reboots(retries)), total)
    /\ UNCHANGED <<fresh, held>>

\* the loop is left on an exception or when the budget is reached
Iterated(W) ==
    /\ Step(W)
    /\ pc' = IF ~Ok(W) \/ W.a.global_iter >= loop.total THEN "idle" ELSE "train"
    /\ loop' = IF ~Ok(W) \/ W.a.global_iter >= loop.total THEN NoLoop ELSE loop

TrainIter(obs, seed, done, retries) ==
    /\ pc = "train"
    /\ Iterated(train_iter(Cur, obs, seed,
                            <<StepOut(O1, done)>> \o (IF done THEN Reboots(retries) ELSE <<>>),
                            loop.total))
    /\ UNCHANGED <<fresh, held>>

\* a second, freshly constructed agent loads a checkpoint
Loaded(W, src) ==
    /\ Ok(W)
    /\ fresh' = [loaded |-> TRUE, got |-> Some(Snapshot(W.a, W.p)), src |-> src]

\* a second, freshly constructed agent loads a checkpoint: in training mode
\* as train(load_path) does, or else as evaluate(load_path) does
FreshLoad(path, training, cfg) ==
    /\ pc = "idle"
    /\ Exists(disk, IF training THEN Join(path, "leap_net") ELSE path)
    /\ Loaded(A_load([NewWorld(cfg, disk) EXCEPT !.a.is_training = training], Some(path)),
              disk[IF training THEN Join(path, "leap_net") ELSE path].src)
    /\ pc' = "done"
    /\ UNCHANGED <<agent, proxy, disk, calls, exc, hist, loop, held, io, tqdm>>

Next ==
    \/ \E obs \in Observations, seed \in Seeds : Act(obs, seed)
    \/ \E path \in SavePaths : Save(path)
    \/ \E path \in LoadPaths : Load(path)
    \/ \E total \in 1..MaxBudget, sp \in {None} \cup {Some(q) : q \in SavePaths},
          lp \in {None, Some(<<"ckpt">>), Some(<<"old">>), Some(<<"gone">>)},
          retries \in 0..1 :
            TrainStart(total, sp, lp, retries)
    \/ \E obs \in Observations, seed \in Seeds, done \in BOOLEAN, retries \in 0..1 :
            TrainIter(obs, seed, done, retries)
    \/ \E path \in LoadPaths, training \in BOOLEAN, cfg \in {DefaultCfg, PlainCfg} :
            FreshLoad(path, training, cfg)

Spec == Init /\ [][Next]_vars

\* ------------------------------------------------ the proxy used directly
\* the metadata of the earlier run's checkpoint
ForeignMeta == Get(InitDisk[<<"old", "leap_net">>].meta).proxy

ProxyApply(W) ==
    /\ Bounded(W)
    /\ proxy' = W.p
    /\ calls' = W.log
    /\ exc' = W.exc
    /\ hist' = W.h
    /\ UNCHANGED <<agent, disk, pc, loop, fresh, io, tqdm>>

PInit(obss) ==
    /\ ProxyApply(init(Cur, obss))
    /\ UNCHANGED held

PBuild ==
    /\ ProxyApply(build_model(Cur))
    /\ UNCHANGED held

PStore(obs) ==
    /\ ProxyApply(store_obs(Cur, obs))
    /\ UNCHANGED held

PTrain(seed) ==
    /\ ProxyApply(train(Cur, seed))
    /\ UNCHANGED held

\* what the decoders of the proxy's network may give
Decoders(p) ==
    IF IsNone(p.model) THEN {<<>>}
    ELSE IF Get(p.model).kind # "Model" THEN {<<>>}
    ELSE DecoderOutputs(Get(p.model))

PPredict(dec) ==
    /\ ProxyApply(predict(Cur, dec))
    /\ UNCHANGED held

\* the caller keeps the dictionary get_metadata returns
PGetMetadata ==
    /\ CanGetMetadata(proxy)
    /\ held' = Some(get_metadata(proxy))
    /\ ProxyApply(Call(Cur, "proxy.get_metadata"))

\* load_metadata of the dictionary kept, or of the earlier run's
PLoadMetadata(d) ==
    /\ ProxyApply(load_metadata(Cur, d))
    /\ UNCHANGED held

NextProxy ==
    \/ \E obss \in Bootstraps : PInit(obss)
    \/ PBuild
    \/ \E obs \in Observations : PStore(obs)
    \/ \E seed \in Seeds : PTrain(seed)
    \/ \E dec \in Decoders(proxy) : PPredict(dec)
    \/ PGetMetadata
    \/ \E d \in {ForeignMeta} \cup (IF IsNone(held) THEN {} ELSE {Get(held)}) : PLoadMetadata(d)

\* the proxy is constructed on its own; the agent of the state is never used
InitProxy == InitWith(AgentNew(Some("tf_logs")), TRUE)

SpecProxy == InitProxy /\ [][NextProxy]_vars

\* ------------------------------------- proxies of other attribute lists
\* line_status among the X attributes only, among both X and Tau, and among
\* neither; DefaultCfg has it among the Tau attributes only
XCfg == [DefaultCfg EXCEPT !.attr_x = <<"prod_p", "line_status">>, !.attr_tau = <<"rho">>]
BothCfg == [DefaultCfg EXCEPT !.attr_x = <<"prod_p", "line_status">>]
NeitherCfg == [DefaultCfg EXCEPT !.attr_tau = <<"rho">>]
MaskCfgs == {DefaultCfg, XCfg, BothCfg, NeitherCfg}
\* the metadata of the checkpoints of proxies of these lists, each
\* initialised on O2
MaskMetas == {get_metadata(init(NewWorld(cfg, Disk0), <<O2>>).p) : cfg \in MaskCfgs}

\* a proxy just constructed
IsFresh(p) == IsNone(p.model) /\ IsNone(p.my_x) /\ ~p.metadata_loaded

\* the metadata of a checkpoint is loaded into a proxy just constructed
PLoadCheckpoint(d) ==
    /\ IsFresh(proxy)
    /\ ProxyApply(load_metadata(Cur, d))
    /\ UNCHANGED held

InitMask ==
    /\ \E cfg \in MaskCfgs : proxy = ProxyLeapNetNew(cfg)
    /\ agent = AgentNew(Some("tf_logs"))
    /\ tqdm = TRUE
    /\ io = <<>>
    /\ disk = InitDisk
    /\ calls = <<>>
    /\ exc = "none"
    /\ hist = Hist0
    /\ pc = "idle"
    /\ loop = NoLoop
    /\ fresh = NotLoaded
    /\ held = None

NextMask ==
    \/ \E obss \in Bootstraps : PInit(obss)
    \/ PBuild
    \/ \E obs \in Observations : PStore(obs)
    \/ \E dec \in Decoders(proxy) : PPredict(dec)
    \/ \E d \in MaskMetas : PLoadCheckpoint(d)

SpecMask == InitMask /\ [][NextMask]_vars

\* ------------------------------- train and evaluate run with an environment
\* what the environment may give to a reboot: terminal attempts, then one
\* that is not; every reset gives O1 and every terminal step O2
RebootScripts ==
    {[i \in 1..(n + 1) |-> ResetOut(O1, IF i <= n THEN O2 ELSE o, i <= n)] :
        n \in 0..MaxRetries, o \in Observations}
\* what it may give to one iteration of a loop: a step that is not terminal,
\* or a terminal one and then a reboot
StepScripts ==
    {<<StepOut(o, FALSE)>> : o \in Observations}
        \cup {<<StepOut(O2, TRUE)>> \o r : r \in RebootScripts}
\* the random draw of a training step that an evaluation never makes
NoSeed == [i \in 1..Capacity |-> i - 1]

\* the loop of train(...) is entered with its budget
EnterLoop(W, total) ==
    IF ~Ok(W) THEN W
    ELSE [W EXCEPT !.l.total = total, !.l.start = W.a.global_iter, !.l.iters = 0,
                   !.l.rows = <<>>, !.l.pred_val = <<>>, !.l.true_val = <<>>,
                   !.l.save_path = None]
\* the handler left its loop: by the break, or by an exception
Left(W) ==
    \/ ~Ok(W)
    \/ IndexOf(W.log, "train.break") > 0
    \/ IndexOf(W.log, "evaluate.break") > 0

RunApply(W, inside) ==
    /\ Bounded(W)
    /\ agent' = W.a
    /\ proxy' = W.p
    /\ disk' = W.fs
    /\ calls' = W.log
    /\ exc' = W.exc
    /\ hist' = W.h
    /\ loop' = W.l
    /\ io' = W.io
    /\ pc' = IF Left(W) THEN "idle" ELSE inside
    /\ UNCHANGED <<fresh, held, tqdm>>

\* train(...) is called with its budget
Budget(W, total) == [W EXCEPT !.l = [NoLoop EXCEPT !.total = total]]

RunTrainStart(total, save_path, load_path, outs) ==
    /\ pc = "idle"
    /\ RunApply(EnterLoop(train_start(Budget(Cur, total), save_path, load_path, outs), total),
                "train")

RunTrainIter(seed, outs) ==
    /\ pc = "train"
    /\ RunApply(train_iter(Cur, Get(loop.obs), seed, outs, loop.total), "train")

RunEvalStart(total, load_path, save_path, outs) ==
    /\ pc = "idle"
    /\ RunApply(eval_start(Cur, total, load_path, save_path, outs), "eval")

RunEvalIter(dec, outs) ==
    /\ pc = "eval"
    /\ RunApply(eval_iter(Cur, NoSeed, dec, outs), "eval")

\* the module is imported, or run as a script: tqdm is bound only then
InitRun == \E t \in BOOLEAN : InitWith(AgentNew(Some("tf_logs")), t)

NextRun ==
    \/ \E total \in 1..MaxBudget, sp \in {None, Some(<<"ckpt">>)},
          lp \in {None, Some(<<"old">>)}, outs \in RebootScripts :
            RunTrainStart(total, sp, lp, outs)
    \/ \E seed \in Seeds, outs \in StepScripts : RunTrainIter(seed, outs)
    \/ \E total \in 1..MaxBudget,
          lp \in {None, Some(<<"ckpt", "leap_net">>), Some(<<"old", "leap_net">>)},
          sp \in {None, Some(<<"ckpt">>), Some(<<"gone">>)}, outs \in RebootScripts :
            RunEvalStart(total, lp, sp, outs)
    \/ \E dec \in Decoders(proxy), outs \in StepScripts : RunEvalIter(dec, outs)

SpecRun == InitRun /\ [][NextRun]_vars

\* ------------------------------------------------------------- properties
\* position of a call in the log of the last handler, 0 when it was not made
At(nm) == IndexOf(calls, nm)
\* the attribute values of an observation, as the rows of the three groups
ObsRow(p, obs) ==
    [x |-> [i \in 1..Len(p.attr_x) |-> ExtractObs(obs, p.attr_x[i])],
     tau |-> [i \in 1..Len(p.attr_tau) |-> ExtractObs(obs, p.attr_tau[i])],
     y |-> [i \in 1..Len(p.attr_y) |-> ExtractObs(obs, p.attr_y[i])]]
\* row r (from 0) of the three groups of the training buffer
StoredRow(p, r) ==
    [x |-> [i \in 1..Len(Get(p.my_x)) |-> Get(p.my_x)[i][r + 1]],
     tau |-> [i \in 1..Len(Get(p.my_tau)) |-> Get(p.my_tau)[i][r + 1]],
     y |-> [i \in 1..Len(Get(p.my_y)) |-> Get(p.my_y)[i][r + 1]]]
\* a proxy initialised once whose cursor no load_metadata has set
OwnBuffer == hist.inits = 1 /\ hist.loads = 0

C2_BuildIdempotent ==
    [][(~IsNone(proxy.model) /\ calls' = <<"proxy.build_model">>)
          => /\ proxy'.model = proxy.model
             /\ proxy'.weights = proxy.weights
             /\ proxy'.optimizer = proxy.optimizer
             /\ proxy'.tensor_line_status = proxy.tensor_line_status]_vars
\* build_model was called on a trained proxy that had loaded metadata
C2_BuiltAgain ==
    /\ calls = <<"proxy.build_model">>
    /\ exc = "none"
    /\ hist.loads = 1
    /\ ~IsNone(proxy.weights)
    /\ IF IsNone(proxy.weights) THEN FALSE ELSE Get(proxy.weights).ver > 0

\* a load that went through: the last handler called load_weights and raised
\* nothing
LoadSucceeded == At("proxy.load_weights") > 0 /\ exc = "none"
\* C3: after every successful load, load_metadata came before build_model and
\* build_model before load_weights, and the network the parameters were
\* assigned into is the one the metadata just read describes.
C3_ArchitectureFromMetadata ==
    LoadSucceeded =>
        /\ 0 < At("proxy.load_metadata")
        /\ At("proxy.load_metadata") < At("proxy.build_model")
        /\ At("proxy.build_model") < At("proxy.load_weights")
        /\ Get(proxy.model) = Architecture(proxy, proxy.tensor_line_status)

\* C4: a fresh agent that loaded a checkpoint holds what the saved agent held:
\* the tau attributes and widths, the means and standard deviations, the sizes
\* of the layers, the optional scaling widths, the cursor and both counters.
C4_MetadataRoundTrip ==
    fresh.loaded => Get(fresh.got) = Get(fresh.src)
\* a fresh agent loaded a checkpoint saved with a scaling width set and one
\* unset, after training, with the cursor off zero
C4_Reloaded ==
    /\ fresh.loaded
    /\ IF IsNone(fresh.src) THEN FALSE
       ELSE /\ Get(fresh.src).train_iter > Get(fresh.src).global_iter
            /\ Get(fresh.src).last_id = 1
            /\ ~IsNone(Get(fresh.src).scale_main_layer)
            /\ IsNone(Get(fresh.src).scale_input_dec_layer)

\* the statistics record of a proxy
Stats(p) == <<p.m_x, p.sd_x, p.m_y, p.sd_y, p.m_tau, p.sd_tau>>
\* C5: the statistics change only in a load_metadata call or in an init call
\* made while no metadata was loaded and no init had run.
C5_StatisticsFrozen ==
    [][Stats(proxy') # Stats(proxy)
          => IF calls'[1] = "proxy.load_metadata" THEN TRUE
             ELSE calls'[1] = "proxy.init" /\ ~proxy.metadata_loaded]_vars
\* a second init, on a proxy that loaded metadata
C5_LaterInit ==
    hist.inits = 2 /\ hist.loads = 1 /\ calls = <<"proxy.init">> /\ exc = "none"

\* C6: in every forward pass, the components of a line-indexed output that
\* belong to a disconnected line (line_status 1, as build_model reads it) are
\* zero, whatever the decoder gives.
C6_MaskedOutputZero ==
    IF IsNone(hist.fwd) THEN TRUE
    ELSE \A i \in 1..Len(Get(hist.fwd).out) :
            Get(proxy.model).outputs[i].name \in line_attr
                => \A c \in 1..Len(Get(hist.fwd).ls) :
                      Get(hist.fwd).ls[c] = R(1) => Get(hist.fwd).out[i][1][c] = R(0)

\* C7: on an initialised proxy no standard deviation of a Y attribute is zero,
\* and de-normalizing the normalized Y values of any row of the buffer gives
\* the row back.
C7_NormalizationRoundTrip ==
    IF IsNone(proxy.my_y) THEN TRUE
    ELSE /\ \A i \in 1..Len(Get(proxy.sd_y)) : \A c \in 1..Len(Get(proxy.sd_y)[i]) :
                Get(proxy.sd_y)[i][c] # R(0)
         /\ \A r \in 0..(Capacity - 1) :
                post_process(proxy, extract_data(proxy, <<r>>).y)
                    = [i \in 1..Len(Get(proxy.my_y)) |-> <<Get(proxy.my_y)[i][r + 1]>>]
\* a stored row, normalized with a mean and a standard deviation that change it
C7_Scaled ==
    /\ hist.nstores > 0
    /\ IF IsNone(proxy.sd_y) THEN FALSE
       ELSE Get(proxy.sd_y)[1][1] \notin {R(0), R(1)} /\ Get(proxy.m_y)[1][1] # R(0)

\* C8: in every state, load of a path with nothing there raises RuntimeError
\* and leaves the agent, the proxy and the files as they were.
C8_MissingPathLoadFails ==
    \A path \in LoadPaths :
        ~Exists(disk, IF agent.is_training THEN Join(path, proxy.name) ELSE path)
            => /\ A_load(Cur, Some(path)).exc = "RuntimeError"
               /\ A_load(Cur, Some(path)).a = agent
               /\ A_load(Cur, Some(path)).p = proxy
               /\ A_load(Cur, Some(path)).fs = disk
\* a load failed on an agent that had trained
C8_LoadFailed ==
    /\ calls = <<"agent.load">>
    /\ exc = "RuntimeError"
    /\ agent.train_iter > 0
    /\ ~IsNone(proxy.model)

\* a handler stored one observation
Stored == hist'.nstores = hist.nstores + 1 \/ (hist'.inits # hist.inits /\ hist'.nstores = 1)
\* C9: a step that stores an observation runs proxy.init and then build_model
\* before the store when the agent was not initialised, and neither
\* otherwise; init never runs twice, and nothing is stored before init and
\* build_model are done.
C9_InitOnFirstObservation ==
    [][/\ hist'.inits <= 1
       /\ hist'.nstores > 0 => (hist'.inits = 1 /\ agent'.is_init /\ ~IsNone(proxy'.model))
       /\ Stored =>
            IF agent.is_init
            THEN IndexOf(calls', "proxy.init") = 0 /\ IndexOf(calls', "agent.init") = 0
            ELSE /\ 0 < IndexOf(calls', "proxy.init")
                 /\ IndexOf(calls', "proxy.init") < IndexOf(calls', "proxy.build_model")
                 /\ IndexOf(calls', "proxy.build_model") < IndexOf(calls', "proxy.store_obs")]_vars
\* a later act call: the buffer got a second observation after the one init
C9_SecondStore == hist.inits = 1 /\ hist.nstores = 2 /\ agent.is_init

\* the log of act itself: what precedes the break of the training loop
ActLog(L) ==
    IF IndexOf(L, "train.break") > 0 THEN SubSeq(L, 1, IndexOf(L, "train.break") - 1) ELSE L
\* the training step of the act call had a batch to give losses for
GotLosses == FilledCount(proxy') >= proxy'.train_batch_size
\* what every act step in training mode does, but for the checkpoint; metrics
\* tells whether the step is to write the progress metrics
ActOrder(metrics) ==
    /\ 0 < IndexOf(calls', "proxy.store_obs")
    /\ IndexOf(calls', "proxy.store_obs") < IndexOf(calls', "proxy.train")
    /\ IF GotLosses
       THEN /\ agent'.train_iter = agent.train_iter + 1
            /\ IndexOf(calls', "proxy.train") < IndexOf(calls', "agent.save_tensorboard")
            /\ IndexOf(calls', "agent.save_tensorboard") < IndexOf(calls', "agent.save_model")
            /\ (IndexOf(calls', "tf.summary") > 0) = metrics
            /\ IndexOf(calls', "tf.summary") > 0 =>
                  /\ IndexOf(calls', "agent.save_tensorboard") < IndexOf(calls', "tf.summary")
                  /\ IndexOf(calls', "tf.summary") < IndexOf(calls', "agent.save_model")
            /\ (IndexOf(ActLog(calls'), "agent.save") > 0)
                  = (agent'.train_iter % agent.save_freq = 0)
            /\ IndexOf(ActLog(calls'), "agent.save") > 0 =>
                  IndexOf(calls', "agent.save_model") < IndexOf(calls', "agent.save")
       ELSE /\ agent'.train_iter = agent.train_iter
            /\ IndexOf(calls', "agent.save_tensorboard") = 0
            /\ IndexOf(calls', "tf.summary") = 0
            /\ IndexOf(calls', "agent.save_model") = 0
            /\ IndexOf(ActLog(calls'), "agent.save") = 0
            /\ IndexOf(ActLog(calls'), "agent.save_metadata") = 0
\* C10 as stated: the order of an act step in training mode, and a checkpoint
\* written during the step exactly when losses came and the incremented
\* train_iter is a multiple of save_freq.
C10_CheckpointOnPeriod ==
    [][(Stored /\ agent.is_training) =>
          /\ ActOrder(agent'.train_iter % agent.update_tensorboard = 0)
          /\ (IndexOf(ActLog(calls'), "agent.save_metadata") > 0)
                = (GotLosses /\ agent'.train_iter % agent.save_freq = 0)]_vars
\* C10 amended: as above, but the metrics are written only by an agent that
\* has a tensorboard writer, and save is called with the save path of the last
\* train(...) call and writes the checkpoint only when that path is set.
C10_CheckpointOnPeriodWithPath ==
    [][(Stored /\ agent.is_training) =>
          /\ ActOrder(agent.tf_writer /\ agent'.train_iter % agent.update_tensorboard = 0)
          /\ (IndexOf(ActLog(calls'), "agent.save_metadata") > 0)
                = (GotLosses /\ agent'.train_iter % agent.save_freq = 0
                     /\ ~IsNone(agent.save_path))]_vars
\* an act step wrote a checkpoint and the metrics
C10_Checkpointed ==
    /\ IndexOf(ActLog(calls), "agent.save_metadata") > At("agent.save_model")
    /\ At("agent.save_model") > At("tf.summary")
    /\ At("tf.summary") > 0
    /\ agent.train_iter = SaveFreq
    /\ exc = "none"

\* a proxy whose attribute widths are not known: no init, no loaded metadata
WidthsUnknown(p) == IsNone(p.sz_x) /\ IsNone(p.sz_y) /\ IsNone(p.sz_tau)

C18_FailedBuildLeavesUnbuilt ==
    [][calls' = <<"proxy.build_model">>
          => /\ (WidthsUnknown(proxy) /\ IsNone(proxy.model))
                    => (exc' # "none" /\ IsNone(proxy'.model))
             /\ (~WidthsUnknown(proxy) /\ exc' = "none")
                    => IF IsNone(proxy'.model) THEN FALSE
                       ELSE Get(proxy'.model).kind = "Model"]_vars

\* the log of a loop iteration itself: what precedes the break of the
\* evaluation loop
EvalLog(L) ==
    IF IndexOf(L, "evaluate.break") > 0
    THEN SubSeq(L, 1, IndexOf(L, "evaluate.break") - 1) ELSE L
\* a step is an iteration of the loop of evaluate(...)
EvalIterStep == pc = "eval" /\ IndexOf(calls', "evaluate.loop") > 0
\* arrays a and b hold the same rows, but for row r (counted from 0)
SameBut(a, b, r) ==
    /\ Len(a) = Len(b)
    /\ \A i \in 1..Len(a) : \A k \in 1..Len(a[i]) : k # r + 1 => a[i][k] = b[i][k]

Exch(j) == io'[j]
TerminalStep(j) == Exch(j).op = "step" /\ Exch(j).done
\* a reset, the policy asked with the observation of the reset, and a step
\* with the action it gave, at positions j, j + 1 and j + 2
ResetThenStep(j) ==
    /\ j + 2 <= Len(io')
    /\ Exch(j).op = "reset"
    /\ Exch(j + 1).op = "policy"
    /\ Exch(j + 1).obs = Exch(j).obs
    /\ Exch(j + 2).op = "step"
    /\ Exch(j + 2).act = Exch(j + 1).act
\* the step at position j is not terminal and follows a reset or the action
\* of the loop
LiveStep(j) ==
    /\ j >= 2
    /\ Exch(j).op = "step"
    /\ ~Exch(j).done
    /\ Exch(j - 1).op = "policy"
    /\ IF j >= 3 THEN Exch(j - 2).op = "reset" ELSE pc # "idle"

\* C12: in train and evaluate a start resets the environment; every terminal
\* step is followed by a reset and one step with an action of the policy, and
\* a reset is made only at a start or after a terminal step; a loop goes on
\* with done = FALSE and with the observation of a step that was not terminal
\* and followed a reset or a normal step, and that observation is the one
\* handed to act and stored by the next iteration.
C12_EpisodeBoundary ==
    [][/\ \A j \in 1..Len(io') : TerminalStep(j) => ResetThenStep(j + 1)
       /\ \A j \in 1..Len(io') :
             Exch(j).op = "reset" =>
                 /\ ResetThenStep(j)
                 /\ IF j = 1 THEN pc = "idle" ELSE TerminalStep(j - 1)
       /\ pc = "idle" => ResetThenStep(1)
       /\ pc' # "idle" =>
             /\ ~loop'.done
             /\ LiveStep(Len(io'))
             /\ loop'.obs = Exch(Len(io')).obs
       /\ pc # "idle" =>
             /\ Exch(1).op = "policy"
             /\ Exch(1).obs = loop.obs
             /\ ~loop.done
             /\ exc' = "none" =>
                   /\ hist'.recent # <<>>
                   /\ hist'.recent[Len(hist'.recent)] = Get(loop.obs)
                   /\ Exch(2).op = "step"
                   /\ Exch(2).act = Exch(1).act
      ]_vars
\* an iteration of the training loop met a termination and a reboot whose
\* first attempt was terminal too
C12_RebootRetried ==
    /\ pc = "train"
    /\ exc = "none"
    /\ Len(io) = 8
    /\ io[2].op = "step" /\ io[2].done
    /\ io[5].op = "step" /\ io[5].done
    /\ io[3].op = "reset" /\ io[6].op = "reset"
    /\ ~io[8].done

\* how many times a call is in a log
Times(L, nm) == Cardinality({i \in 1..Len(L) : L[i] = nm})
\* the calls of a log that come after the break of the training loop
AfterBreak(L) == SubSeq(L, IndexOf(L, "train.break") + 1, Len(L))
\* a step is a call of train(...) whose checkpoint, when one is asked, loads
TrainCalled == pc = "idle" /\ IndexOf(calls', "agent.train") > 0 /\ exc' # "FileNotFoundError"
\* a step is an iteration of the loop of train(...)
TrainIterStep == pc = "train" /\ IndexOf(calls', "train.loop") > 0
\* what train(...) does with its budget
BudgetOnly ==
    /\ TrainCalled /\ agent'.global_iter < loop'.total =>
          /\ exc' = "none"
          /\ pc' = "train"
          /\ loop'.start = agent'.global_iter
          /\ loop'.iters = 0
    /\ TrainIterStep /\ loop.start < loop.total =>
          /\ exc' = "none"
          /\ agent'.global_iter = agent.global_iter + 1
          /\ loop'.iters = loop.iters + 1
          /\ agent'.global_iter = loop.start + loop'.iters
          /\ (pc' = "idle") <=> (agent'.global_iter >= loop.total)
          /\ pc' = "idle" =>
                /\ agent'.global_iter = loop.total
                /\ loop'.iters = loop.total - loop.start
                /\ IndexOf(calls', "train.break") > 0
                /\ Times(AfterBreak(calls'), "agent.save") = 1

\* C13: a call of train(...) that finds global_iter below its budget enters
\* the loop; every iteration, with or without an episode boundary, adds one to
\* global_iter and raises nothing; the loop is left only when global_iter has
\* reached the budget, after budget - g0 iterations, and the model is then
\* saved once.
C13_TrainRunsItsBudget == [][BudgetOnly]_vars

\* the observation the environment last produced before position j of the
\* exchanges of a step: that of the reset or step just before, or the one the
\* loop holds when the step begins
LastProduced(j) == IF j = 1 THEN loop.obs ELSE Exch(j - 1).obs
FromEnv(j) == j = 1 \/ Exch(j - 1).op \in {"reset", "step"}
\* the policy is asked at position j, just after the environment produced an
\* observation, and with that observation
PolicyAsked(j) ==
    /\ j >= 1
    /\ Exch(j).op = "policy"
    /\ FromEnv(j)
    /\ Exch(j).obs = LastProduced(j)

\* every step of the environment is given the action of the call of the
\* policy made just before it, asked with the observation the environment
\* last produced; no two calls come one after the other; unless the handler
\* raises one of the allowed exceptions, every action asked is given to the
\* step that follows, so that the calls and the steps are as many
OncePerStep(allowed) ==
    /\ \A j \in 1..Len(io') :
          Exch(j).op = "step" => PolicyAsked(j - 1) /\ Exch(j).act = Exch(j - 1).act
    /\ \A j \in 1..Len(io') :
          Exch(j).op = "policy" =>
              /\ PolicyAsked(j)
              /\ ~IsNone(Exch(j).act)
              /\ \A k \in 1..Len(io') : (k # j /\ Exch(k).op = "policy") => Exch(k).act # Exch(j).act
              /\ j < Len(io') => Exch(j + 1).op = "step"
              /\ exc' \notin allowed => j < Len(io')
    /\ exc' \notin allowed =>
          Cardinality({j \in 1..Len(io') : Exch(j).op = "policy"})
              = Cardinality({j \in 1..Len(io') : Exch(j).op = "step"})

\* C17: in train and evaluate, at a start and in an iteration, reboots
\* included, every step of the environment is given the action of exactly one
\* call of the policy, made just before it with the observation the
\* environment last produced, and every action asked from the policy is given
\* to a step of the environment.
C17_PolicyOncePerStep == [][OncePerStep({})]_vars

\* the rows 0 .. n - 1, each once and in this order
RowsUpTo(n) == [i \in 1..n |-> i - 1]

\* C19: every iteration of the evaluation loop writes the prediction and the
\* reference at a row global_iter that is at least 0 and below
\* total_evaluation_step, so that the write raises no IndexError; when the
\* loop is left by its break every row 0 .. total_evaluation_step - 1 has
\* been written exactly once, and global_iter is at least 1 when the results
\* are saved.
C19_EvaluateRowsInRange ==
    [][EvalIterStep =>
          /\ exc' # "IndexError"
          /\ loop'.rows # loop.rows =>
                /\ agent.global_iter >= 0
                /\ agent.global_iter < loop.total
                /\ loop'.rows = Append(loop.rows, agent.global_iter)
          /\ IndexOf(calls', "evaluate.break") > 0 =>
                /\ loop'.rows = RowsUpTo(loop.total)
                /\ IndexOf(calls', "agent.save_results") > 0
                /\ agent'.global_iter >= 1
                /\ exc' # "ZeroDivisionError"
      ]_vars

\* where "line_status" is found: among the Tau attributes first, among the X
\* attributes when Tau has none, nowhere otherwise
Lookup(p) ==
    IF IndexOf(p.attr_tau, "line_status") # 0
    THEN Some([src |-> "tau", idx |-> IndexOf(p.attr_tau, "line_status")])
    ELSE IF IndexOf(p.attr_x, "line_status") # 0
    THEN Some([src |-> "x", idx |-> IndexOf(p.attr_x, "line_status")])
    ELSE None
\* a step is a build_model call on a proxy that holds no model and knows its widths
BuildStep ==
    /\ calls' = <<"proxy.build_model">>
    /\ IsNone(proxy.model)
    /\ ~WidthsUnknown(proxy)
\* the outputs of a network that are multiplied by the mask
Masked(arch) == {i \in 1..Len(arch.outputs) : arch.outputs[i].force_disco}
LineOutputs(arch) == {i \in 1..Len(arch.outputs) : arch.outputs[i].name \in line_attr}
\* the mask source of a proxy is the one the look-up gives on its attribute
\* lists, and the network it builds masks its line-indexed outputs with it
MaskSelection ==
    /\ BuildStep /\ Lookup(proxy) = None =>
          /\ proxy.warned
          /\ exc' = "none"
          /\ Get(proxy'.model).kind = "Model"
          /\ Get(proxy'.model).mask = None
          /\ Masked(Get(proxy'.model)) = {}
    /\ BuildStep /\ Lookup(proxy) # None =>
          /\ ~proxy.warned
          /\ exc' = "none"
          /\ Get(proxy'.model).kind = "Model"
          /\ Get(proxy'.model).mask = Lookup(proxy)
          /\ Masked(Get(proxy'.model)) = LineOutputs(Get(proxy'.model))
    /\ ~IsNone(hist'.fwd) =>
          \A i \in 1..Len(Get(hist'.fwd).out) :
              i \notin LineOutputs(Get(proxy'.model)) => Get(hist'.fwd).out[i][1] = Get(hist'.fwd).dec[i]

\* C16: when build_model builds a network, the mask is 1 - line_status of the
\* Tau attributes if Tau has line_status, of the X attributes if only X has
\* it, and there is none if neither has it, in which case the proxy has warned
\* and build_model raises nothing and masks no output; the outputs multiplied
\* by the mask are the line-indexed ones, and a forward pass gives every other
\* output as its decoder gives it.
C16_MaskSourceSelection == [][MaskSelection]_vars

\* the rows of a batch are pairwise distinct and among the first n
DistinctBelow(rows, n) ==
    /\ \A i \in 1..Len(rows) : rows[i] \in 0..(n - 1)
    /\ \A i, j \in 1..Len(rows) : rows[i] = rows[j] => i = j
\* what sample(batch_size) gives on a proxy, for every draw of its generator
\* and every batch size the filled rows can serve
SampleContract(p) ==
    /\ FilledCount(p) = (IF p.is_filled THEN Capacity ELSE p.last_id)
    /\ \A seed \in Seeds, b \in 1..Capacity :
          IF FilledCount(p) = 0
          THEN /\ sample(NewWorld(DefaultCfg, Disk0), seed, b).exc = "InsufficientDataError"
               /\ sample([Cur EXCEPT !.p = p], seed, b).exc = "InsufficientDataError"
               /\ sample([Cur EXCEPT !.p = p], seed, b).ret = None
          ELSE b <= FilledCount(p) =>
                  /\ sample([Cur EXCEPT !.p = p], seed, b).exc = "none"
                  /\ Len(Get(sample([Cur EXCEPT !.p = p], seed, b).ret)) = b
                  /\ DistinctBelow(Get(sample([Cur EXCEPT !.p = p], seed, b).ret), FilledCount(p))
\* a step is an act(...) of an agent that is training
TrainingAct == Stored /\ agent.is_training /\ exc' = "none"

====
